---- MODULE Spec2Model ----
(***************************************************************************)
(* A model of learning-lm-rs: loading the Llama parameters                 *)
(* (src/src/params.rs, src/src/model.rs from_safetensors), the forward     *)
(* pass over a key/value cache, the generate and answer loops              *)
(* (src/src/model.rs) and the chat loop (src/src/main.rs).                 *)
(*                                                                         *)
(* Numeric values (f32) are not computed.  A cache row is tagged with the  *)
(* absolute position of the token it was computed from, a loaded weight    *)
(* is the bit pattern decoded from the container's bytes, and the sampled  *)
(* token is any token of the vocabulary.                                   *)
(***************************************************************************)
EXTENDS Integers, Sequences, FiniteSets, TLC

VARIABLES
    pc,            \* position of the single thread of the program
    fn,            \* the entry point in progress: generate, answer, forward
    artifact,      \* the model directory: [config, tensors]
    llama,         \* the Llama value (NoLlama before / without a load)
    err,           \* the panic message once pc = "aborted"
    kv_cache,      \* the caller's persistent cache (ChatManager.kv_cache)
    gcache,        \* generate's local cache
    token_ids,     \* argument of generate / answer
    max_len,       \* argument of generate / answer
    result,        \* local of generate / answer, and the value returned
    input,         \* the tensor handed to forward
    it,            \* number of loop iterations started in this call
    seq_len,       \* forward: input.size()
    past_seq_len,  \* forward: cache.len() at entry
    layer,         \* forward: the loop variable
    messages,      \* ChatManager.messages, each message a token sequence
    turn,          \* number of answer calls issued by ChatManager::run
    tape,          \* the sampling outcomes of the generate run of SpecEq
    gen_rec,       \* what the generate run of SpecEq did
    fwd_log,       \* history: the inputs passed to forward in this call
    entry_len,     \* history: the cache length when the call started
    prev_len,      \* history: the cache length at the previous sample
    incs,          \* history: increment calls of the current forward pass
    written,       \* history: <<layer, position>> written in the current pass
    attn           \* self_attention: its arguments, loop position and accesses

vars == <<pc, fn, artifact, llama, err, kv_cache, gcache, token_ids, max_len,
          result, input, it, seq_len, past_seq_len, layer, messages, turn,
          tape, gen_rec, fwd_log, entry_len, prev_len, incs, written, attn>>

(***************************************************************************)
(* Bounds of the model.                                                    *)
(***************************************************************************)
\* vocabulary size of the modelled artifact (config.vocab_size)
VocabSize == 3
\* max_position_embeddings of the modelled artifact
MaxSeqLen == 3
\* longest prompt handed to generate / answer / forward by the callers
MaxPromptLen == 2
\* largest max_len handed to generate / answer by the callers
MaxMaxLen == 3
\* max_position_embeddings of the artifact the chat loop runs on
ChatSeqLen == 12
\* the max_len the chat loop passes to answer (100 in main.rs, scaled down)
ChatMaxLen == 2
\* number of distinct byte contents a container tensor is drawn from
DataSeeds == 2

\* number of key/value heads of a modelled self_attention call
MaxKvHeads == 2
\* number of query heads per key/value head of a modelled self_attention call
MaxGroups == 2
\* head size (dqkv) of a modelled self_attention call
MaxHeadDim == 2
\* the number of layers LLamaParams::from_safetensors loads
LoadedLayers == 2

Min(a, b) == IF a <= b THEN a ELSE b

RECURSIVE Product(_)
Product(s) == IF s = <<>> THEN 1 ELSE Head(s) * Product(Tail(s))

\* all sequences over S of length at most n
SeqsUpTo(S, n) == UNION {[1..k -> S] : k \in 0..n}

IsPrefix(s, t) == Len(s) <= Len(t) /\ SubSeq(t, 1, Len(s)) = s

(***************************************************************************)
(* The model artifact: config.json and model.safetensors.                  *)
(***************************************************************************)
wq_names == <<"model.layers.0.self_attn.q_proj.weight",
              "model.layers.1.self_attn.q_proj.weight">>
wk_names == <<"model.layers.0.self_attn.k_proj.weight",
              "model.layers.1.self_attn.k_proj.weight">>
wv_names == <<"model.layers.0.self_attn.v_proj.weight",
              "model.layers.1.self_attn.v_proj.weight">>
wo_names == <<"model.layers.0.self_attn.o_proj.weight",
              "model.layers.1.self_attn.o_proj.weight">>
w_up_names == <<"model.layers.0.mlp.up_proj.weight",
                "model.layers.1.mlp.up_proj.weight">>
w_gate_names == <<"model.layers.0.mlp.gate_proj.weight",
                  "model.layers.1.mlp.gate_proj.weight">>
w_down_names == <<"model.layers.0.mlp.down_proj.weight",
                  "model.layers.1.mlp.down_proj.weight">>
rms_att_w_names == <<"model.layers.0.input_layernorm.weight",
                     "model.layers.1.input_layernorm.weight">>
rms_ffn_w_names == <<"model.layers.0.post_attention_layernorm.weight",
                     "model.layers.1.post_attention_layernorm.weight">>
rms_out_w_name == "model.norm.weight"
lm_head_name == "lm_head.weight"
\* the name the embedding table is read from
C9_embedding_table_name_untied == "model.embed_tokens.weight"
embedding_table_name == "lm_head.weight"

Range(s) == {s[i] : i \in DOMAIN s}

LayerFields == <<wq_names, wk_names, wv_names, wo_names, w_up_names,
                 w_gate_names, w_down_names, rms_att_w_names, rms_ffn_w_names>>

\* every name LLamaParams::from_safetensors asks the container for
RequiredNames ==
    UNION {Range(LayerFields[f]) : f \in DOMAIN LayerFields}
        \cup {rms_out_w_name, lm_head_name, embedding_table_name}

\* the fields of LlamaConfigJson that Llama::from_safetensors reads
\* (rms_norm_eps and rope_theta are floats and are left out)
ConfigOf(vocab, layers, msl, bos, eos) ==
    [vocab_size |-> vocab, num_hidden_layers |-> layers,
     num_attention_heads |-> 2, num_key_value_heads |-> 1,
     hidden_size |-> 2, intermediate_size |-> 3,
     max_position_embeddings |-> msl,
     bos_token_id |-> bos, eos_token_id |-> eos]

\* the shape the configuration gives each parameter (params.rs, the comments
\* of the fields)
ExpectedShape(c, name) ==
    LET hd == c.hidden_size \div c.num_attention_heads IN
    IF name \in Range(wq_names)
        THEN <<c.num_attention_heads * hd, c.hidden_size>>
    ELSE IF name \in Range(wk_names) \cup Range(wv_names)
        THEN <<c.num_key_value_heads * hd, c.hidden_size>>
    ELSE IF name \in Range(wo_names)
        THEN <<c.hidden_size, c.num_attention_heads * hd>>
    ELSE IF name \in Range(w_up_names) \cup Range(w_gate_names)
        THEN <<c.intermediate_size, c.hidden_size>>
    ELSE IF name \in Range(w_down_names)
        THEN <<c.hidden_size, c.intermediate_size>>
    ELSE IF name \in Range(rms_att_w_names) \cup Range(rms_ffn_w_names)
                \cup {rms_out_w_name}
        THEN <<c.hidden_size>>
    ELSE <<c.vocab_size, c.hidden_size>>

\* the bytes of a container tensor of n f32 values: 4 bytes per value
Bytes(seed, n) == [i \in 1..(4 * n) |-> (seed * i + (i \div 4)) % 4]

TensorView(shape, seed) == [shape |-> shape, data |-> Bytes(seed, Product(shape))]

\* a container whose tensors all have the shapes of configuration c; the
\* contents of lm_head.weight and of model.embed_tokens.weight are drawn
GoodTensors(c, s_head, s_embed) ==
    [name \in RequiredNames \cup {"model.embed_tokens.weight"} |->
        TensorView(ExpectedShape(c, name),
                   IF name = lm_head_name THEN s_head
                   ELSE IF name = "model.embed_tokens.weight" THEN s_embed
                   ELSE 0)]

Without(t, name) == [n \in (DOMAIN t) \ {name} |-> t[n]]

Misshaped(t, name) ==
    [t EXCEPT ![name] =
        TensorView(<<t[name].shape[1] + 1>> \o Tail(t[name].shape), 0)]

Containers(c) ==
    LET good == {GoodTensors(c, a, b) : a \in 1..DataSeeds, b \in 1..DataSeeds}
    IN good
        \cup {Without(t, n) : t \in good, n \in RequiredNames}
        \cup {Misshaped(t, n) : t \in good, n \in RequiredNames}

(***************************************************************************)
(* LLamaParams::from_safetensors.                                          *)
(***************************************************************************)
None == [none |-> TRUE]

\* the closure's byte loop: bytes[chunk.len() - i - 1] = chunk[i]
ReverseChunk(chunk) == [i \in 1..4 |-> chunk[4 - i + 1]]

\* f32::from_be_bytes, as the bit pattern of the value
from_be_bytes(b) == ((b[1] * 256 + b[2]) * 256 + b[3]) * 256 + b[4]

\* tensor.data().chunks_exact(4).map(...).collect()
DecodeData(data) ==
    [k \in 1..(Len(data) \div 4) |->
        from_be_bytes(ReverseChunk(SubSeq(data, 4 * (k - 1) + 1, 4 * k)))]

\* Tensor::<f32>::new(data, &shape)
Tensor_new(data, shape) == [shape |-> shape, data |-> data]

\* the closure get_tensor: Some(tensor) or None
get_tensor(safetensor, name) ==
    IF name \in DOMAIN safetensor
        THEN Tensor_new(DecodeData(safetensor[name].data), safetensor[name].shape)
        ELSE None

\* vec![get_tensor(..0..).unwrap(), get_tensor(..1..).unwrap()]
LoadLayers(safetensor, names) ==
    [l \in 1..Len(names) |-> get_tensor(safetensor, names[l])]

\* some .unwrap() of the struct literal meets None
LoadPanics(safetensor) == \E n \in RequiredNames : n \notin DOMAIN safetensor

\* the LLamaParams value (the configuration is not consulted)
LLamaParams_from_safetensors(safetensor, config) ==
    [wq |-> LoadLayers(safetensor, wq_names),
     wk |-> LoadLayers(safetensor, wk_names),
     wv |-> LoadLayers(safetensor, wv_names),
     wo |-> LoadLayers(safetensor, wo_names),
     w_up |-> LoadLayers(safetensor, w_up_names),
     w_gate |-> LoadLayers(safetensor, w_gate_names),
     w_down |-> LoadLayers(safetensor, w_down_names),
     rms_att_w |-> LoadLayers(safetensor, rms_att_w_names),
     rms_ffn_w |-> LoadLayers(safetensor, rms_ffn_w_names),
     rms_out_w |-> get_tensor(safetensor, rms_out_w_name),
     lm_head |-> get_tensor(safetensor, lm_head_name),
     embedding_table |-> get_tensor(safetensor, embedding_table_name)]

NoLlama == [none |-> TRUE]

\* the struct literal of Llama::from_safetensors
Llama_from_safetensors(a) ==
    [vocab |-> a.config.vocab_size,
     n_layers |-> a.config.num_hidden_layers,
     n_q_h |-> a.config.num_attention_heads,
     n_kv_h |-> a.config.num_key_value_heads,
     d |-> a.config.hidden_size,
     dqkv |-> a.config.hidden_size \div a.config.num_attention_heads,
     di |-> a.config.intermediate_size,
     max_seq_len |-> a.config.max_position_embeddings,
     params |-> LLamaParams_from_safetensors(a.tensors, a.config),
     bos_token_id |-> a.config.bos_token_id,
     eos_token_id |-> a.config.eos_token_id]

\* the message of a panicking Option::unwrap
UnwrapNone == "called Option::unwrap() on a None value"

(***************************************************************************)
(* KVCache: per layer a key and a value store of max_seq_len rows, and one *)
(* logical length.  A row is <<>> (zero) or the tag of what a forward pass  *)
(* wrote there: <<"k", p>> for the key, rotated to the absolute position   *)
(* p, of the token at position p, and <<"v", p>> for its value.            *)
(***************************************************************************)
ZeroRow == <<>>

\* KVCache::new(n_layers, max_seq_len, dim, init_len)
KVCache_new(n_layers, max_seq_len, dim, init_len) ==
    [k |-> [l \in 0..(n_layers - 1) |-> [p \in 0..(max_seq_len - 1) |-> ZeroRow]],
     v |-> [l \in 0..(n_layers - 1) |-> [p \in 0..(max_seq_len - 1) |-> ZeroRow]],
     max_seq_len |-> max_seq_len,
     dim |-> dim,
     length |-> init_len]

\* the sequence length the caches are built for
C6_CacheCapacity_off_by_one == llama.max_seq_len + 1
CacheCapacity == llama.max_seq_len

\* Llama::new_cache
new_cache == KVCache_new(llama.n_layers, CacheCapacity, llama.n_kv_h * llama.dqkv, 0)

\* the cache generate allocates for itself
generate_cache == KVCache_new(llama.n_layers, CacheCapacity, llama.n_kv_h * llama.dqkv, 0)

\* KVCache::len
cache_len(cache) == cache.length

\* KVCache::increment: the fatal condition when the length would pass
\* max_seq_len, and the new cache otherwise
IncrementFatal(cache, n) == cache.length + n > cache.max_seq_len
increment(cache, n) == [cache EXCEPT !.length = @ + n]

\* KVCache::k_cache / v_cache (layer, start): the view over rows
\* [start, length), as the index pair it resolves to
cache_view(cache, start) == [start |-> start, rows |-> cache.length - start]

\* matmul_transb(out, 0., a, w, 1.): one row of out per row of a, written
\* through the view
WriteRows(store, view, rows) ==
    [p \in DOMAIN store |->
        IF p >= view.start /\ p < view.start + Len(rows)
            THEN rows[p - view.start + 1]
            ELSE store[p]]

\* the positions a write of n rows through the view touches
Touched(view, n) == {view.start + i : i \in 0..(n - 1)}

(***************************************************************************)
(* Llama::forward, in three steps: the entry (increment, buffers, gather), *)
(* one decoder layer, and the logits of the last position.                 *)
(***************************************************************************)
\* the cache the call in progress works on
CurCache == IF fn = "generate" THEN gcache ELSE kv_cache

SetCache(c) ==
    IF fn = "generate"
        THEN gcache' = c /\ kv_cache' = kv_cache
        ELSE kv_cache' = c /\ gcache' = gcache

Abort(msg) == pc' = "aborted" /\ err' = msg

CacheOverflow == "cache length exceeds max_seq_len"
IndexOutOfBounds == "index out of bounds"
SubtractOverflow == "attempt to subtract with overflow"
ShapeMismatch == "tensor shape mismatch"

ShapeOk(t, name) == t.shape = ExpectedShape(artifact.config, name)

\* the kernels' shape requirements on the weights of one layer (l from 0)
LayerShapesOk(l) ==
    \A f \in DOMAIN LayerFields :
        LET names == LayerFields[f]
            field == <<llama.params.wq, llama.params.wk, llama.params.wv,
                       llama.params.wo, llama.params.w_up, llama.params.w_gate,
                       llama.params.w_down, llama.params.rms_att_w,
                       llama.params.rms_ffn_w>>[f]
        IN ShapeOk(field[l + 1], names[l + 1])

\* the kernels' shape requirements on the output weights
OutputShapesOk ==
    /\ ShapeOk(llama.params.rms_out_w, rms_out_w_name)
    /\ ShapeOk(llama.params.lm_head, lm_head_name)

\* the start of the view the new keys and values are written through
C7_WriteStart_from_zero(past) == 0
WriteStart(past) == past

\* the rows matmul_transb and rope leave in k: one per input token, rotated
\* to the absolute position past_seq_len + i
KeyRows == [i \in 1..seq_len |-> <<"k", past_seq_len + i - 1>>]

\* the rows matmul_transb leaves in v: one per input token
ValueRows == [i \in 1..seq_len |-> <<"v", past_seq_len + i - 1>>]

\* lines 60-63: seq_len, past_seq_len, cache.increment(seq_len)
ForwardBegin ==
    /\ pc = "fwd_begin"
    /\ seq_len' = Len(input)
    /\ past_seq_len' = cache_len(CurCache)
    /\ layer' = 0
    /\ incs' = incs + 1
    /\ IF IncrementFatal(CurCache, Len(input))
          THEN /\ Abort(CacheOverflow)
               /\ UNCHANGED <<kv_cache, gcache>>
          ELSE /\ SetCache(increment(CurCache, Len(input)))
               /\ pc' = "fwd_layer"
               /\ err' = err
    /\ UNCHANGED <<attn, fn, artifact, llama, token_ids, max_len, result, input, it,
                   messages, turn, tape, gen_rec, fwd_log, entry_len, prev_len,
                   written>>

\* lines 79-142: one iteration of the layer loop
ForwardLayer ==
    /\ pc = "fwd_layer"
    /\ layer < llama.n_layers
    /\ IF layer + 1 > Len(llama.params.rms_att_w)
          THEN /\ Abort(IndexOutOfBounds)
               /\ UNCHANGED <<kv_cache, gcache, layer, written>>
          ELSE IF ~LayerShapesOk(layer)
          THEN /\ Abort(ShapeMismatch)
               /\ UNCHANGED <<kv_cache, gcache, layer, written>>
          ELSE LET c == CurCache
                   k == cache_view(c, WriteStart(past_seq_len))
                   v == cache_view(c, WriteStart(past_seq_len))
               IN /\ SetCache([c EXCEPT
                        !.k[layer] = WriteRows(@, k, KeyRows),
                        !.v[layer] = WriteRows(@, v, ValueRows)])
                  /\ written' = written \cup
                        {<<layer, p>> : p \in Touched(k, seq_len) \cup Touched(v, seq_len)}
                  /\ layer' = layer + 1
                  /\ UNCHANGED <<pc, err>>
    /\ UNCHANGED <<attn, fn, artifact, llama, token_ids, max_len, result, input, it,
                   seq_len, past_seq_len, messages, turn, tape, gen_rec, fwd_log,
                   entry_len, prev_len, incs>>

\* lines 144-159: the last position's hidden state, rms_norm, lm_head
ForwardLogits ==
    /\ pc = "fwd_layer"
    /\ layer >= llama.n_layers
    /\ IF seq_len = 0
          THEN Abort(SubtractOverflow)
          ELSE IF ~OutputShapesOk
          THEN Abort(ShapeMismatch)
          ELSE /\ pc' = IF fn = "forward" THEN "returned" ELSE "sample"
               /\ err' = err
    /\ UNCHANGED <<attn, fn, artifact, llama, kv_cache, gcache, token_ids, max_len,
                   result, input, it, seq_len, past_seq_len, layer, messages,
                   turn, tape, gen_rec, fwd_log, entry_len, prev_len, incs,
                   written>>

(***************************************************************************)
(* self_attention (model.rs), called by forward once per layer.  Tensors   *)
(* are flat row-major buffers; an access is the flat index it uses.        *)
(***************************************************************************)
\* attn while no self_attention call is modelled
NoAttn == [pc |-> "none"]

\* the arguments forward passes: n_groups = n_q_h / n_kv_h (line 64),
\* total_seq_len = past_seq_len + seq_len (line 63), dqkv = d / n_q_h (line 44)
AttnArgs(n_q_h, n_kv_h, d, seq, past) ==
    [n_q_h |-> n_q_h, d |-> d, n_kv_h |-> n_kv_h, n_groups |-> n_q_h \div n_kv_h,
     seq_len |-> seq, total_seq_len |-> past + seq, dqkv |-> d \div n_q_h]

\* sizes of the buffers self_attention indexes
hidden_states_size(a) == a.seq_len * a.d
q_buf_size(a) == a.seq_len * (a.n_q_h * a.dqkv)
att_scores_size(a) == a.n_kv_h * a.n_groups * a.seq_len * a.total_seq_len
full_k_size(a) == a.total_seq_len * (a.n_kv_h * a.dqkv)

\* let q_head = kv_head * n_groups + group
C11_q_head_without_stride(a, kv_head, group) == kv_head + group
q_head_of(a, kv_head, group) == kv_head * a.n_groups + group

q_stride(a) == a.n_kv_h * a.n_groups * a.dqkv
k_stride(a) == a.n_kv_h * a.dqkv
v_stride(a) == a.n_kv_h * a.dqkv
h_stride(a) == a.n_kv_h * a.n_groups * a.dqkv

q_idx(a, q_head, q_pos, d) == q_pos * q_stride(a) + q_head * a.dqkv + d
k_idx(a, kv_head, k_pos, d) == k_pos * k_stride(a) + kv_head * a.dqkv + d
v_idx(a, kv_head, k_pos, d) == k_pos * v_stride(a) + kv_head * a.dqkv + d
h_idx(a, q_head, q_pos, d) == q_pos * h_stride(a) + q_head * a.dqkv + d

attn_idx(a, kv_head, group, q_pos, k_pos) ==
    kv_head * a.n_groups * a.seq_len * a.total_seq_len
        + group * a.seq_len * a.total_seq_len
        + q_pos * a.total_seq_len
        + k_pos

\* the ranges of the inner loops
QPos(a) == 0..(a.seq_len - 1)
KPos(a) == 0..(a.total_seq_len - 1)
Dims(a) == 0..(a.dqkv - 1)

\* the state of a call at entry
AttnEntry(args) ==
    [pc |-> "scores", kv_head |-> 0, group |-> 0,
     n_q_h |-> args.n_q_h, d |-> args.d, n_kv_h |-> args.n_kv_h,
     n_groups |-> args.n_groups, seq_len |-> args.seq_len,
     total_seq_len |-> args.total_seq_len, dqkv |-> args.dqkv,
     att_count |-> [i \in 0..(att_scores_size(args) - 1) |-> 0],
     h_count |-> [i \in 0..(hidden_states_size(args) - 1) |-> 0],
     att_read |-> {}, k_reads |-> {}, v_reads |-> {}]

\* for group in 0..n_groups { .. } inside for kv_head in 0..n_kv_h { .. }
NextHead(a) ==
    IF a.group + 1 < a.n_groups
       THEN [a EXCEPT !.group = a.group + 1]
       ELSE [a EXCEPT !.kv_head = a.kv_head + 1, !.group = 0]

AttnPanic(a) == [a EXCEPT !.pc = "panicked"]

\* lines 240-268: the score pass for one (kv_head, group)
AttnScores ==
    /\ attn.pc = "scores"
    /\ attn.kv_head < attn.n_kv_h
    /\ LET a == attn
           q_head == q_head_of(a, a.kv_head, a.group)
           q_used == {q_idx(a, q_head, q_pos, d) : q_pos \in QPos(a), d \in Dims(a)}
           k_used == IF a.seq_len = 0 THEN {}
                     ELSE {k_idx(a, a.kv_head, k_pos, d) : k_pos \in KPos(a), d \in Dims(a)}
           pairs == QPos(a) \X KPos(a)
           att_used == {attn_idx(a, a.kv_head, a.group, p[1], p[2]) : p \in pairs}
       IN attn' =
            IF \/ \E i \in q_used : i >= q_buf_size(a)
               \/ \E i \in k_used : i >= full_k_size(a)
               \/ \E i \in att_used : i >= att_scores_size(a)
               THEN AttnPanic(a)
               ELSE [NextHead(a) EXCEPT
                       !.k_reads = @ \cup {[q_head |-> q_head, idx |-> i] : i \in k_used},
                       !.att_count = [i \in DOMAIN @ |-> @[i] + Cardinality(
                           {p \in pairs : attn_idx(a, a.kv_head, a.group, p[1], p[2]) = i})]]
    /\ UNCHANGED <<pc, fn, artifact, llama, err, kv_cache, gcache, token_ids,
                   max_len, result, input, it, seq_len, past_seq_len, layer,
                   messages, turn, tape, gen_rec, fwd_log, entry_len, prev_len,
                   incs, written>>

\* line 270: masked_softmax(att_scores), after the whole score pass
AttnSoftmax ==
    /\ attn.pc = "scores"
    /\ attn.kv_head >= attn.n_kv_h
    /\ attn' = [attn EXCEPT !.pc = "sum", !.kv_head = 0, !.group = 0]
    /\ UNCHANGED <<pc, fn, artifact, llama, err, kv_cache, gcache, token_ids,
                   max_len, result, input, it, seq_len, past_seq_len, layer,
                   messages, turn, tape, gen_rec, fwd_log, entry_len, prev_len,
                   incs, written>>

\* lines 273-302: the weighted sum for one (kv_head, group)
AttnSum ==
    /\ attn.pc = "sum"
    /\ attn.kv_head < attn.n_kv_h
    /\ LET a == attn
           q_head == q_head_of(a, a.kv_head, a.group)
           outs == QPos(a) \X Dims(a)
           pairs == QPos(a) \X KPos(a)
           v_used == IF a.seq_len = 0 THEN {}
                     ELSE {v_idx(a, a.kv_head, k_pos, d) : k_pos \in KPos(a), d \in Dims(a)}
           att_used == IF a.dqkv = 0 THEN {}
                       ELSE {attn_idx(a, a.kv_head, a.group, p[1], p[2]) : p \in pairs}
           h_used == {h_idx(a, q_head, o[1], o[2]) : o \in outs}
       IN attn' =
            IF \/ \E i \in v_used : i >= full_k_size(a)
               \/ \E i \in att_used : i >= att_scores_size(a)
               \/ \E i \in h_used : i >= hidden_states_size(a)
               THEN AttnPanic(a)
               ELSE [NextHead(a) EXCEPT
                       !.v_reads = @ \cup {[q_head |-> q_head, idx |-> i] : i \in v_used},
                       !.att_read = @ \cup att_used,
                       !.h_count = [i \in DOMAIN @ |-> @[i] + Cardinality(
                           {o \in outs : h_idx(a, q_head, o[1], o[2]) = i})]]
    /\ UNCHANGED <<pc, fn, artifact, llama, err, kv_cache, gcache, token_ids,
                   max_len, result, input, it, seq_len, past_seq_len, layer,
                   messages, turn, tape, gen_rec, fwd_log, entry_len, prev_len,
                   incs, written>>

\* line 303: self_attention returns
AttnReturn ==
    /\ attn.pc = "sum"
    /\ attn.kv_head >= attn.n_kv_h
    /\ attn' = [attn EXCEPT !.pc = "done"]
    /\ UNCHANGED <<pc, fn, artifact, llama, err, kv_cache, gcache, token_ids,
                   max_len, result, input, it, seq_len, past_seq_len, layer,
                   messages, turn, tape, gen_rec, fwd_log, entry_len, prev_len,
                   incs, written>>

(***************************************************************************)
(* Llama::generate and Llama::answer.                                      *)
(***************************************************************************)
Vocab == 0..(llama.vocab - 1)

\* let mut result = Vec::from(token_ids); result.push(self.bos_token_id)
generate_result(ids) == Append(ids, llama.bos_token_id)
C5_answer_result_no_bos(ids) == ids
answer_result(ids) == Append(ids, llama.bos_token_id)

\* let mut input = Tensor::new(token_ids.to_vec(), ..)
C12_generate_input_with_bos(ids) == Append(ids, llama.bos_token_id)
generate_input(ids) == ids
answer_input(ids) == ids

\* if next_token == self.eos_token_id { break; }
C2_generate_breaks_on_bos(next_token) == next_token = llama.bos_token_id
generate_breaks(next_token) == next_token = llama.eos_token_id
answer_breaks(next_token) == next_token = llama.eos_token_id
IsEos(next_token) ==
    IF fn = "answer" THEN answer_breaks(next_token) ELSE generate_breaks(next_token)

\* input = Tensor::new(vec![next_token], ..)
generate_next_input(next_token) == <<next_token>>
C3_answer_next_input_with_bos(next_token) == <<llama.bos_token_id, next_token>>
answer_next_input(next_token) == <<next_token>>
NextInput(next_token) ==
    IF fn = "answer" THEN answer_next_input(next_token)
    ELSE generate_next_input(next_token)

\* for _ in 0..max_len
C1_generate_continues_inclusive == it <= max_len
generate_continues == it < max_len
answer_continues == it < max_len
LoopContinues == IF fn = "answer" THEN answer_continues ELSE generate_continues

\* the body of generate before its loop
DoGenerate(ids, m) ==
    /\ fn' = "generate"
    /\ token_ids' = ids
    /\ max_len' = m
    /\ result' = generate_result(ids)
    /\ gcache' = generate_cache
    /\ input' = generate_input(ids)
    /\ it' = 0
    /\ pc' = "loop"
    /\ err' = ""
    /\ fwd_log' = <<>>
    /\ entry_len' = 0
    /\ prev_len' = 0
    /\ incs' = 0
    /\ written' = {}
    /\ seq_len' = 0
    /\ past_seq_len' = 0
    /\ layer' = 0
    /\ UNCHANGED <<attn, artifact, llama, kv_cache>>

\* the body of answer before its loop
DoAnswer(ids, m) ==
    /\ fn' = "answer"
    /\ token_ids' = ids
    /\ max_len' = m
    /\ result' = answer_result(ids)
    /\ input' = answer_input(ids)
    /\ it' = 0
    /\ pc' = "loop"
    /\ err' = ""
    /\ fwd_log' = <<>>
    /\ entry_len' = cache_len(kv_cache)
    /\ prev_len' = cache_len(kv_cache)
    /\ incs' = 0
    /\ written' = {}
    /\ seq_len' = 0
    /\ past_seq_len' = 0
    /\ layer' = 0
    /\ gcache' = new_cache
    /\ UNCHANGED <<attn, artifact, llama, kv_cache>>

\* the loop test, and the call of forward or the return of result
LoopHead ==
    /\ pc = "loop"
    /\ IF LoopContinues
          THEN /\ it' = it + 1
               /\ pc' = "fwd_begin"
               /\ fwd_log' = Append(fwd_log, input)
               /\ incs' = 0
               /\ written' = {}
          ELSE /\ pc' = "returned"
               /\ UNCHANGED <<it, fwd_log, incs, written>>
    /\ UNCHANGED <<attn, fn, artifact, llama, err, kv_cache, gcache, token_ids,
                   max_len, result, input, seq_len, past_seq_len, layer,
                   messages, turn, tape, gen_rec, entry_len, prev_len>>

\* OP::random_sample returned next_token; the rest of the loop body
Sample(next_token) ==
    /\ pc = "sample"
    /\ prev_len' = cache_len(CurCache)
    /\ IF IsEos(next_token)
          THEN /\ pc' = "returned"
               /\ UNCHANGED <<result, input>>
          ELSE /\ result' = Append(result, next_token)
               /\ input' = NextInput(next_token)
               /\ pc' = "loop"
    /\ UNCHANGED <<attn, fn, artifact, llama, err, kv_cache, gcache, token_ids,
                   max_len, it, seq_len, past_seq_len, layer, messages, turn,
                   gen_rec, fwd_log, entry_len, incs, written>>

(***************************************************************************)
(* The callers of the entry points.                                        *)
(***************************************************************************)
Prompts == SeqsUpTo(Vocab, MaxPromptLen)

CanCall == pc = "idle"

\* the caller has the returned value and goes on: the locals of the call
\* (and generate's cache) are dropped, the caller's cache stays
CallerContinues ==
    /\ pc = "returned"
    /\ pc' = "idle"
    /\ fn' = "none"
    /\ token_ids' = <<>>
    /\ max_len' = 0
    /\ result' = <<>>
    /\ input' = <<>>
    /\ it' = 0
    /\ seq_len' = 0
    /\ past_seq_len' = 0
    /\ layer' = 0
    /\ gcache' = new_cache
    /\ fwd_log' = <<>>
    /\ entry_len' = 0
    /\ prev_len' = 0
    /\ incs' = 0
    /\ written' = {}
    /\ UNCHANGED <<attn, artifact, llama, err, kv_cache, messages, turn, tape, gen_rec>>

\* a call of generate with any prompt and any max_len
CallGenerate ==
    /\ CanCall
    /\ \E ids \in Prompts, m \in 0..MaxMaxLen : DoGenerate(ids, m)
    /\ UNCHANGED <<messages, turn, tape, gen_rec>>

\* a call of answer on the caller's cache with any prompt and any max_len
CallAnswer ==
    /\ CanCall
    /\ \E ids \in Prompts, m \in 0..MaxMaxLen : DoAnswer(ids, m)
    /\ UNCHANGED <<messages, turn, tape, gen_rec>>

\* a direct call of forward on the caller's cache
CallForward ==
    /\ CanCall
    /\ fn' = "forward"
    /\ \E ids \in Prompts :
          /\ input' = ids
          /\ fwd_log' = <<ids>>
    /\ pc' = "fwd_begin"
    /\ err' = ""
    /\ entry_len' = cache_len(kv_cache)
    /\ prev_len' = cache_len(kv_cache)
    /\ incs' = 0
    /\ written' = {}
    /\ token_ids' = <<>>
    /\ max_len' = 0
    /\ result' = <<>>
    /\ it' = 0
    /\ seq_len' = 0
    /\ past_seq_len' = 0
    /\ layer' = 0
    /\ gcache' = new_cache
    /\ UNCHANGED <<attn, artifact, llama, kv_cache, messages, turn, tape, gen_rec>>

\* the sampled token is any token of the vocabulary
SampleAny ==
    /\ pc = "sample"
    /\ \E next_token \in Vocab : Sample(next_token)
    /\ tape' = tape

GoodArtifact(vocab, layers, msl, bos, eos) ==
    LET c == ConfigOf(vocab, layers, msl, bos, eos)
    IN [config |-> c, tensors |-> GoodTensors(c, 1, 2)]

\* the state once the model is loaded and the caller holds a new cache
Loaded(a) ==
    /\ artifact = a
    /\ llama = Llama_from_safetensors(a)
    /\ kv_cache = new_cache
    /\ gcache = new_cache
    /\ pc = "idle"
    /\ fn = "none"
    /\ err = ""
    /\ result = <<>>
    /\ input = <<>>
    /\ it = 0
    /\ seq_len = 0
    /\ past_seq_len = 0
    /\ layer = 0
    /\ messages = <<>>
    /\ turn = 0
    /\ fwd_log = <<>>
    /\ entry_len = 0
    /\ prev_len = 0
    /\ incs = 0
    /\ written = {}
    /\ attn = NoAttn

\* the special token ids of the modelled artifacts: the end-of-sequence id
\* is the last id of the vocabulary, the beginning-of-sequence id is the
\* one before it or (a degenerate configuration) the same id
EosId == VocabSize - 1
BosIds == {EosId - 1, EosId}

Init ==
    /\ \E bos \in BosIds : Loaded(GoodArtifact(VocabSize, LoadedLayers, MaxSeqLen, bos, EosId))
    /\ token_ids = <<>>
    /\ max_len = 0
    /\ tape = <<>>
    /\ gen_rec = None

Next ==
    \/ CallGenerate
    \/ CallAnswer
    \/ CallForward
    \/ LoopHead
    \/ ForwardBegin
    \/ ForwardLayer
    \/ ForwardLogits
    \/ SampleAny
    \/ CallerContinues

Spec == Init /\ [][Next]_vars

(***************************************************************************)
(* generate and answer run on the same arguments and the same sampling     *)
(* outcomes: generate first, then answer on a cache of length 0.           *)
(***************************************************************************)
InitEq ==
    /\ \E bos \in BosIds : Loaded(GoodArtifact(VocabSize, LoadedLayers, MaxSeqLen, bos, EosId))
    /\ token_ids \in Prompts
    /\ max_len \in 0..MaxMaxLen
    /\ tape = <<>>
    /\ gen_rec = None

EqGenerate ==
    /\ pc = "idle"
    /\ DoGenerate(token_ids, max_len)
    /\ UNCHANGED <<messages, turn, tape, gen_rec>>

\* generate's sampling outcomes are any tokens, and are recorded on the tape;
\* answer's outcome in iteration it is the recorded one, tape[it]
EqSample ==
    /\ pc = "sample"
    /\ IF fn = "generate" \/ it > Len(tape)
          THEN \E next_token \in Vocab :
                  /\ Sample(next_token)
                  /\ tape' = Append(tape, next_token)
          ELSE /\ Sample(tape[it])
               /\ tape' = tape

EqAnswer ==
    /\ fn = "generate"
    /\ pc \in {"returned", "aborted"}
    /\ gen_rec' = [outcome |-> pc, err |-> err, result |-> result, fwd_log |-> fwd_log]
    /\ DoAnswer(token_ids, max_len)
    /\ UNCHANGED <<messages, turn, tape>>

NextEq ==
    \/ EqGenerate
    \/ EqAnswer
    \/ LoopHead
    \/ ForwardBegin
    \/ ForwardLayer
    \/ ForwardLogits
    \/ EqSample

SpecEq == InitEq /\ [][NextEq]_vars

(***************************************************************************)
(* ChatManager::run (main.rs).  The tokenizer is an external crate: a      *)
(* message is modelled as its token sequence, the encoding of a joined     *)
(* text as the concatenation of the encodings of its parts.                *)
(***************************************************************************)
\* the chat artifact's vocabulary: the ids below VocabSize and two more
\* ordinary tokens, the text of a scripted user line and of a scripted reply
ChatVocabSize == VocabSize + 2
UserText == VocabSize
AiText == VocabSize + 1

\* "AI: "
AiPrefix == <<0>>

\* the four messages pushed at the top of every iteration
ScriptedMessages ==
    << <<UserText>>, AiPrefix \o <<AiText>>, <<UserText>>, AiPrefix \o <<AiText>> >>

RECURSIVE Join(_)
Join(msgs) == IF msgs = <<>> THEN <<>> ELSE Head(msgs) \o Join(Tail(msgs))

\* self.messages.join("") + "AI: ", encoded without special tokens
ChatPrompt(msgs) == Join(msgs) \o AiPrefix

IsSpecial(t) == t \in {llama.bos_token_id, llama.eos_token_id}

\* tokenizer.decode(&output_ids, true): the special tokens are skipped
Decode(ids) == SelectSeq(ids, LAMBDA t : ~IsSpecial(t))

\* format!("AI: {}\n", resp)
ReplyMessage(output_ids) == AiPrefix \o Decode(output_ids)

\* the lines the user may type (read, trimmed and not used)
UserLines == {"", "hello"}

InitChat ==
    /\ \E bos \in BosIds : Loaded(GoodArtifact(ChatVocabSize, LoadedLayers, ChatSeqLen, bos, EosId))
    /\ token_ids = <<>>
    /\ max_len = 0
    /\ tape = <<>>
    /\ gen_rec = None

\* lines 39-60: the scripted messages, the line read, the prompt, answer
ChatTurn ==
    /\ pc = "idle"
    /\ \E line \in UserLines :
          LET pushed == messages \o ScriptedMessages
          IN /\ messages' = pushed
             /\ DoAnswer(ChatPrompt(pushed), ChatMaxLen)
    /\ turn' = turn + 1
    /\ UNCHANGED <<tape, gen_rec>>

\* lines 61-65: the reply is decoded and pushed
ChatReply ==
    /\ pc = "returned"
    /\ fn = "answer"
    /\ messages' = Append(messages, ReplyMessage(result))
    /\ pc' = "idle"
    /\ UNCHANGED <<attn, fn, artifact, llama, err, kv_cache, gcache, token_ids,
                   max_len, result, input, it, seq_len, past_seq_len, layer,
                   turn, tape, gen_rec, fwd_log, entry_len, prev_len, incs,
                   written>>

NextChat ==
    \/ ChatTurn
    \/ ChatReply
    \/ LoopHead
    \/ ForwardBegin
    \/ ForwardLayer
    \/ ForwardLogits
    \/ SampleAny

SpecChat == InitChat /\ [][NextChat]_vars

(***************************************************************************)
(* Loading: Llama::from_safetensors on any artifact, then a cache and      *)
(* forward passes on the value it returned.                                *)
(***************************************************************************)
NoCache == KVCache_new(0, 0, 0, 0)

Artifacts ==
    {[config |-> ConfigOf(VocabSize, layers, MaxSeqLen, EosId - 1, EosId),
      tensors |-> t] :
        layers \in 1..(LoadedLayers + 1),
        t \in Containers(ConfigOf(VocabSize, LoadedLayers, MaxSeqLen, EosId - 1, EosId))}

InitLoad ==
    /\ artifact \in Artifacts
    /\ llama = NoLlama
    /\ kv_cache = NoCache
    /\ gcache = NoCache
    /\ pc = "load"
    /\ fn = "none"
    /\ err = ""
    /\ token_ids = <<>>
    /\ max_len = 0
    /\ result = <<>>
    /\ input = <<>>
    /\ it = 0
    /\ seq_len = 0
    /\ past_seq_len = 0
    /\ layer = 0
    /\ messages = <<>>
    /\ turn = 0
    /\ tape = <<>>
    /\ gen_rec = None
    /\ fwd_log = <<>>
    /\ entry_len = 0
    /\ prev_len = 0
    /\ incs = 0
    /\ written = {}
    /\ attn = NoAttn

\* Llama::from_safetensors: a panic of some unwrap, or the Llama value
FromSafetensors ==
    /\ pc = "load"
    /\ IF LoadPanics(artifact.tensors)
          THEN /\ Abort(UnwrapNone)
               /\ llama' = llama
          ELSE /\ llama' = Llama_from_safetensors(artifact)
               /\ pc' = "loaded"
               /\ err' = err
    /\ UNCHANGED <<attn, fn, artifact, kv_cache, gcache, token_ids, max_len, result,
                   input, it, seq_len, past_seq_len, layer, messages, turn,
                   tape, gen_rec, fwd_log, entry_len, prev_len, incs, written>>

\* ChatManager::new: kv_cache: llama.new_cache()
ChatManager_new ==
    /\ pc = "loaded"
    /\ kv_cache' = new_cache
    /\ gcache' = new_cache
    /\ pc' = "idle"
    /\ UNCHANGED <<attn, fn, artifact, llama, err, token_ids, max_len, result, input,
                   it, seq_len, past_seq_len, layer, messages, turn, tape,
                   gen_rec, fwd_log, entry_len, prev_len, incs, written>>

NextLoad ==
    \/ FromSafetensors
    \/ ChatManager_new
    \/ CallForward
    \/ ForwardBegin
    \/ ForwardLayer
    \/ ForwardLogits
    \/ CallerContinues

SpecLoad == InitLoad /\ [][NextLoad]_vars

(***************************************************************************)
(* self_attention on the arguments forward passes it, for every head       *)
(* layout, head size, input length and cache offset within the bounds.     *)
(***************************************************************************)
\* the calls forward can make: n_q_h a multiple of n_kv_h, d a multiple of
\* n_q_h, total_seq_len within the cache's capacity
AttnCalls ==
    {AttnArgs(n_kv_h * g, n_kv_h, n_kv_h * g * hd, seq, past) :
        n_kv_h \in 1..MaxKvHeads, g \in 1..MaxGroups, hd \in 1..MaxHeadDim,
        seq \in 0..MaxPromptLen, past \in 0..MaxSeqLen}

InitAttn ==
    /\ \E args \in AttnCalls :
          /\ args.total_seq_len <= MaxSeqLen
          /\ attn = AttnEntry(args)
    /\ artifact = GoodArtifact(VocabSize, LoadedLayers, MaxSeqLen, EosId - 1, EosId)
    /\ llama = NoLlama
    /\ kv_cache = NoCache
    /\ gcache = NoCache
    /\ pc = "self_attention"
    /\ fn = "forward"
    /\ err = ""
    /\ token_ids = <<>>
    /\ max_len = 0
    /\ result = <<>>
    /\ input = <<>>
    /\ it = 0
    /\ seq_len = 0
    /\ past_seq_len = 0
    /\ layer = 0
    /\ messages = <<>>
    /\ turn = 0
    /\ tape = <<>>
    /\ gen_rec = None
    /\ fwd_log = <<>>
    /\ entry_len = 0
    /\ prev_len = 0
    /\ incs = 0
    /\ written = {}

NextAttn ==
    \/ AttnScores
    \/ AttnSoftmax
    \/ AttnSum
    \/ AttnReturn

SpecAttn == InitAttn /\ [][NextAttn]_vars

(***************************************************************************)
(* Properties.                                                             *)
(***************************************************************************)
InCall == pc \in {"loop", "fwd_begin", "fwd_layer", "sample"}

\* one step of the call in progress
CallStep == LoopHead \/ ForwardBegin \/ ForwardLayer \/ ForwardLogits \/ SampleAny

\* the tokens the loop pushed onto result (after the prompt and the marker)
Appended == SubSeq(result, Len(token_ids) + 2, Len(result))

\* a bound on the steps the call in progress has left
Measure ==
    LET K == llama.n_layers + 5
    IN CASE pc = "loop" -> (max_len - it) * K
         [] pc = "fwd_begin" -> (max_len - it) * K + K - 1
         [] pc = "fwd_layer" -> (max_len - it) * K + K - 2 - layer
         [] pc = "sample" -> (max_len - it) * K + 1
         [] OTHER -> 0 - 1

C1_Inv ==
    fn = "generate" =>
        /\ it <= max_len
        /\ InCall => ENABLED CallStep
        /\ pc = "aborted" =>
              \/ token_ids = <<>> /\ err = SubtractOverflow
              \/ /\ err = CacheOverflow
                 /\ Len(token_ids) + it - 1 > llama.max_seq_len
        /\ (Len(token_ids) >= 1 /\ Len(token_ids) + max_len - 1 <= llama.max_seq_len)
              => pc # "aborted"
        /\ (token_ids = <<>> /\ max_len >= 1) => pc # "returned"

C1_Progress == (fn = "generate" /\ InCall) => Measure' < Measure

C2_NoEosInResult ==
    (fn = "generate" /\ pc = "returned") =>
        \A i \in DOMAIN result : result[i] # llama.eos_token_id

\* C2, amended: the sequence generate returns is the prompt, then the
\* beginning-of-sequence id, then the sampled tokens, and no sampled token
\* in it equals the end-of-sequence id (the id can occur in the prompt, and
\* as the marker when bos_token_id = eos_token_id).
C2_NoSampledEos ==
    fn = "generate" =>
        /\ IsPrefix(Append(token_ids, llama.bos_token_id), result)
        /\ \A i \in DOMAIN Appended : Appended[i] # llama.eos_token_id

C2_Witness ==
    /\ fn = "generate"
    /\ pc = "returned"
    /\ Len(Appended) >= 1
    /\ Len(Appended) = it - 1

\* C3 as stated: in generate and in answer every iteration, the first
\* included, advances the cache length by exactly one between one sample
\* and the next.
C3_AdvanceByOne ==
    (fn \in {"generate", "answer"} /\ pc = "sample") =>
        cache_len(CurCache) = prev_len + 1

\* C3, amended: in generate and in answer the first iteration advances the
\* cache length by the length of the prompt, and every later iteration
\* advances it by exactly one between one sample and the next.
C3_AdvanceByInput ==
    (fn \in {"generate", "answer"} /\ pc = "sample") =>
        cache_len(CurCache) = prev_len + (IF it = 1 THEN Len(token_ids) ELSE 1)

C3_Witness ==
    /\ fn = "answer"
    /\ pc = "sample"
    /\ it >= 2
    /\ entry_len >= 1

\* C4: generate starts from a cache of length 0 and the tokens of its first
\* forward pass are the prompt together with the beginning-of-sequence id,
\* so the marker in the returned sequence is a position of the cache.
C4_FirstForwardHasBos ==
    (fn = "generate" /\ Len(fwd_log) >= 1) =>
        /\ entry_len = 0
        /\ fwd_log[1] = Append(token_ids, llama.bos_token_id)

\* C5: on a cache of length 0, with the prompt, max_len and sampling outcomes
\* of a generate run, answer passes the same inputs to forward, ends the
\* same way and returns the same sequence.
C5_AnswerMatchesGenerate ==
    (fn = "answer" /\ gen_rec # None) =>
        /\ IsPrefix(fwd_log, gen_rec.fwd_log)
        /\ pc \in {"returned", "aborted"} =>
              /\ gen_rec.outcome = pc
              /\ gen_rec.err = err
              /\ gen_rec.fwd_log = fwd_log
              /\ gen_rec.result = result

C5_Witness ==
    /\ fn = "answer"
    /\ gen_rec # None
    /\ pc = "returned"
    /\ Len(fwd_log) >= 2
    /\ Len(result) >= Len(token_ids) + 3

\* C6: whatever forward, generate and answer calls were made, the length of
\* a cache is at most max_seq_len; a forward pass that would take it past
\* max_seq_len ends in the fatal condition and leaves the length as it was.
C6_LengthBounded ==
    /\ cache_len(kv_cache) <= llama.max_seq_len
    /\ cache_len(gcache) <= llama.max_seq_len
    /\ pc \in {"fwd_layer", "sample"} =>
          /\ cache_len(CurCache) = past_seq_len + seq_len
          /\ past_seq_len + seq_len <= llama.max_seq_len
    /\ (pc = "aborted" /\ err = CacheOverflow) =>
          /\ past_seq_len + seq_len > llama.max_seq_len
          /\ cache_len(CurCache) = past_seq_len

C6_Witness ==
    /\ fn = "answer"
    /\ pc = "aborted"
    /\ err = CacheOverflow
    /\ entry_len >= 1

C7_Inv ==
    /\ pc = "fwd_begin" => (incs = 0 /\ written = {})
    /\ (pc \in {"fwd_layer", "sample"} \/ (pc = "returned" /\ fn = "forward")) =>
          /\ incs = 1
          /\ \A w \in written :
                w[2] >= past_seq_len /\ w[2] < past_seq_len + seq_len

C7_Frame ==
    pc \in {"fwd_begin", "fwd_layer"} =>
        LET old == IF pc = "fwd_begin" THEN cache_len(CurCache) ELSE past_seq_len
        IN /\ \A l \in DOMAIN CurCache.k : \A p \in 0..(old - 1) :
                /\ CurCache'.k[l][p] = CurCache.k[l][p]
                /\ CurCache'.v[l][p] = CurCache.v[l][p]
           /\ fn = "generate" => kv_cache' = kv_cache

\* C7: a forward pass over n tokens on a cache of length old calls increment
\* once, before any key or value is written; every write of the pass, in
\* every layer, is to a position in [old, old + n); and the rows at the
\* positions [0, old) of every layer's keys and values are left as they were.
C7_WritesInWindow == []C7_Inv /\ [][C7_Frame]_vars

C7_Witness ==
    /\ pc = "fwd_layer"
    /\ layer = llama.n_layers
    /\ past_seq_len >= 1
    /\ seq_len >= 2
    /\ written # {}

\* the configuration and the container agree: the layer count is the number
\* of per-layer tensors loaded, every tensor asked for is there, and every
\* tensor has the shape the configuration gives it
Consistent(a) ==
    /\ a.config.num_hidden_layers = LoadedLayers
    /\ \A n \in RequiredNames :
          /\ n \in DOMAIN a.tensors
          /\ a.tensors[n].shape = ExpectedShape(a.config, n)

\* C8: when the configuration and the container disagree (a tensor missing,
\* a shape that is not the configured one, a layer count that is not the
\* number of per-layer tensors loaded), from_safetensors aborts and no Llama
\* value is returned.
C8_MismatchAbortsLoad ==
    (pc # "load" /\ ~Consistent(artifact)) =>
        (pc = "aborted" /\ llama = NoLlama)

\* C9: after from_safetensors returned, lm_head and embedding_table have the
\* same shape and are equal element for element.
C9_LmHeadTied ==
    llama # NoLlama =>
        /\ llama.params.lm_head.shape = llama.params.embedding_table.shape
        /\ DOMAIN llama.params.lm_head.data = DOMAIN llama.params.embedding_table.data
        /\ \A i \in DOMAIN llama.params.lm_head.data :
              llama.params.lm_head.data[i] = llama.params.embedding_table.data[i]

C9_Witness ==
    /\ pc = "loaded"
    /\ llama # NoLlama
    /\ Len(llama.params.lm_head.data) = VocabSize * artifact.config.hidden_size
    /\ artifact.tensors["model.embed_tokens.weight"].data
          # artifact.tensors["lm_head.weight"].data

\* C10: across the answer calls of the chat loop on its one cache, no token
\* is passed to forward twice: the prompt of a later turn does not begin
\* with the prompt of the turn before, whose tokens the cache already holds.
C10_NoTokenForwardedTwice ==
    [][(pc = "idle" /\ pc' = "loop" /\ turn >= 1)
          => ~IsPrefix(token_ids, token_ids')]_vars

\* the query heads of a call, and its (kv_head, group) pairs
QueryHeads(a) == 0..(a.n_kv_h * a.n_groups - 1)
HeadPairs(a) == (0..(a.n_kv_h - 1)) \X (0..(a.n_groups - 1))

\* the columns of K and V that belong to one kv head
KvColumns(a, kv_head) == (kv_head * a.dqkv)..((kv_head + 1) * a.dqkv - 1)

\* a recorded read of K or V stays in a row of the history and in the
\* columns of the kv head that query head r.q_head shares
ReadsOwnKvHead(a, r) ==
    /\ r.idx \div k_stride(a) < a.total_seq_len
    /\ r.idx % k_stride(a) \in KvColumns(a, r.q_head \div a.n_groups)

\* C11: in self_attention with query_heads = n_kv_h * n_groups: the pairs
\* (kv_head, group) map one-to-one onto the query heads
\* kv_head * n_groups + group in 0..query_heads; the score pass and the
\* weighted sum of a query head read only the key/value columns
\* [kv_head * dqkv, (kv_head + 1) * dqkv) of the kv head it shares; no index
\* is out of bounds (the call never panics), every att_scores index is
\* written by at most one (kv_head, group, q_pos, k_pos), by exactly one once
\* the score pass is over, and only written indices are read; and at return
\* every output element hidden_states[q_pos][q_head * dqkv + d] has been
\* written exactly once.
C11_AttentionIndexing ==
    attn.pc # "none" =>
        LET a == attn
        IN /\ a.pc # "panicked"
           /\ \A p \in HeadPairs(a) : q_head_of(a, p[1], p[2]) \in QueryHeads(a)
           /\ \A q_head \in QueryHeads(a) :
                 Cardinality({p \in HeadPairs(a) : q_head_of(a, p[1], p[2]) = q_head}) = 1
           /\ \A r \in a.k_reads \cup a.v_reads : ReadsOwnKvHead(a, r)
           /\ \A i \in DOMAIN a.att_count : a.att_count[i] <= 1
           /\ a.pc \in {"sum", "done"} => \A i \in DOMAIN a.att_count : a.att_count[i] = 1
           /\ \A i \in a.att_read : i \in DOMAIN a.att_count /\ a.att_count[i] = 1
           /\ \A i \in DOMAIN a.h_count : a.h_count[i] <= 1
           /\ a.pc = "done" =>
                 \A q_pos \in QPos(a), q_head \in QueryHeads(a), d \in Dims(a) :
                    /\ h_idx(a, q_head, q_pos, d) \in DOMAIN a.h_count
                    /\ a.h_count[h_idx(a, q_head, q_pos, d)] = 1

\* a call with two kv heads of two query heads each, head size two, two
\* new positions and one cached position has returned
C11_Witness ==
    /\ attn.pc = "done"
    /\ attn.n_kv_h >= 2
    /\ attn.n_groups >= 2
    /\ attn.dqkv >= 2
    /\ attn.seq_len >= 2
    /\ attn.total_seq_len > attn.seq_len
    /\ attn.k_reads # {}
    /\ attn.v_reads # {}

\* generate or answer has returned from a call with max_len >= 1
ReturnedFromLoop ==
    /\ pc = "returned"
    /\ fn \in {"generate", "answer"}
    /\ max_len >= 1

\* C12 as stated: when answer (or generate) returns after max_len >= 1,
\* whether it stopped on the end-of-sequence id or by exhausting max_len,
\* the cache length is its length at entry plus the prompt length plus the
\* number of sampled tokens appended to the returned sequence.
C12_CacheHoldsReturned ==
    ReturnedFromLoop =>
        cache_len(CurCache) = entry_len + Len(token_ids) + Len(Appended)

\* C12, amended: when answer (or generate) returns after max_len >= 1 it ran
\* it >= 1 iterations and the cache length is its length at entry plus the
\* prompt length plus it - 1.  If it stopped on the end-of-sequence id that
\* is the number of appended tokens; if it exhausted max_len, max_len tokens
\* were appended and the cache is one short of them: the last returned
\* token has not been forwarded.
C12_CacheLengthAtReturn ==
    ReturnedFromLoop =>
        /\ it >= 1
        /\ cache_len(CurCache) = entry_len + Len(token_ids) + (it - 1)
        /\ \/ Len(Appended) = it - 1
           \/ Len(Appended) = it /\ it = max_len
        /\ Len(Appended) = it =>
              cache_len(CurCache) = entry_len + Len(token_ids) + Len(Appended) - 1

\* answer returned by exhausting max_len = 2 on a cache that was not empty
\* at entry
C12_Witness ==
    /\ ReturnedFromLoop
    /\ fn = "answer"
    /\ entry_len > 0
    /\ max_len >= 2
    /\ Len(Appended) = max_len

====
